---- MODULE Spec2Model ----
(***************************************************************************)
(* Model of the SATOSA module router (src/satosa/routing.py) and of the    *)
(* state handling of its SAML2 backend (src/satosa/backends/saml2.py).     *)
(*                                                                         *)
(* Python strings are sequences of one-character strings, so that split,   *)
(* replace and re.search are computed character by character.  Python's    *)
(* None is the one-element sequence <<"None">>, which no string of         *)
(* one-character elements equals.                                          *)
(***************************************************************************)
EXTENDS Naturals, Integers, Sequences, FiniteSets, TLC

VARIABLES router, args, ctx, last, pending, origin, flows, saml

vars == <<router, args, ctx, last, pending, origin, flows, saml>>

None == <<"None">>

STATE_KEY == "ROUTER"

Range(s) == {s[i] : i \in 1..Len(s)}

----------------------------------------------------------------------------
(* Python built-ins used by the router *)

\* str.split(sep) for a one-character separator: "" gives [""]
RECURSIVE split(_, _)
split(s, sep) ==
    IF \E i \in 1..Len(s) : s[i] = sep
    THEN LET i == CHOOSE k \in 1..Len(s) :
                      s[k] = sep /\ \A j \in 1..(k-1) : s[j] # sep
         IN  <<SubSeq(s, 1, i-1)>> \o split(SubSeq(s, i+1, Len(s)), sep)
    ELSE <<s>>

\* str.replace(old, new, count); count = -1 replaces every occurrence,
\* scanning left to right over non-overlapping occurrences
RECURSIVE replace(_, _, _, _)
replace(s, old, new, count) ==
    IF count = 0 THEN s
    ELSE IF Len(old) = 0
    THEN IF Len(s) = 0 THEN new
         ELSE new \o <<Head(s)>> \o replace(Tail(s), old, new, count - 1)
    ELSE IF Len(s) < Len(old) THEN s
    ELSE IF SubSeq(s, 1, Len(old)) = old
    THEN new \o replace(SubSeq(s, Len(old) + 1, Len(s)), old, new, count - 1)
    ELSE <<Head(s)>> \o replace(Tail(s), old, new, count)

\* list.remove(x): the list without its first element equal to x
\* (the caller raises ValueError when there is none)
list_remove(l, x) ==
    LET i == CHOOSE k \in 1..Len(l) : l[k] = x /\ \A j \in 1..(k-1) : l[j] # x
    IN  SubSeq(l, 1, i-1) \o SubSeq(l, i+1, Len(l))

\* re.search(regex, s) for the regular expressions the modules register:
\* an optional "^", literal characters, an optional "$"
re_search(regex, s) ==
    LET start == Len(regex) > 0 /\ regex[1] = "^"
        end   == Len(regex) > 0 /\ regex[Len(regex)] = "$"
        lo    == IF start THEN 2 ELSE 1
        hi    == IF end THEN Len(regex) - 1 ELSE Len(regex)
        lit   == SubSeq(regex, lo, hi)
        n     == Len(lit)
    IN  \E i \in 1..(Len(s) + 1) :
            /\ i + n - 1 <= Len(s)
            /\ SubSeq(s, i, i + n - 1) = lit
            /\ start => i = 1
            /\ end => i + n - 1 = Len(s)

\* truth value of a Python string or None in "if x:"
truthy(v) == v # None /\ v # <<>>

\* an argument that is a list of module instances, or None
NoneList == [is_none |-> TRUE, items |-> <<>>]

List(items) == [is_none |-> FALSE, items |-> items]

\* truth value of such an argument in "if x:"
truthy_list(l) == ~l.is_none /\ l.items # <<>>

----------------------------------------------------------------------------
(* Module instances, Request Context, outcomes *)

\* a module instance: its name and the Endpoint Table its
\* register_endpoints() returns, a sequence of <<regex, spec>> pairs
Instance(name, endpoints) == [name |-> name, endpoints |-> endpoints]

NoInstance == Instance(None, <<>>)

\* satosa.context.Context: a fresh context has no targets
Context(path, state) ==
    [path |-> path, target_backend |-> None, target_frontend |-> None,
     target_micro_service |-> None, state |-> state]

\* an empty satosa.state.State
EmptyState == [k \in {} |-> None]

\* the result of a call: a returned value or a raised exception
Return(spec, instance) ==
    [kind |-> "return", exc |-> "", spec |-> spec, instance |-> instance, arg |-> None]

Raise(exc, arg) ==
    [kind |-> "raise", exc |-> exc, spec |-> None, instance |-> NoInstance, arg |-> arg]

----------------------------------------------------------------------------
(* ModuleRouter *)

\* a dict built by a comprehension over instances, keyed by instance.name:
\* a sequence of entries in insertion order; a repeated key keeps its first
\* position and takes the later value
RECURSIVE dict_of(_, _)
dict_of(instances, acc) ==
    IF instances = <<>> THEN acc
    ELSE LET inst  == Head(instances)
             entry == [name |-> inst.name, instance |-> inst, endpoints |-> inst.endpoints]
         IN  IF \E i \in 1..Len(acc) : acc[i].name = inst.name
             THEN dict_of(Tail(instances),
                          [i \in 1..Len(acc) |->
                              IF acc[i].name = inst.name THEN entry ELSE acc[i]])
             ELSE dict_of(Tail(instances), Append(acc, entry))

keys(d) == {d[i].name : i \in 1..Len(d)}

lookup(d, k) == d[CHOOSE i \in 1..Len(d) : d[i].name = k]

\* ModuleRouter.__init__ with "and" for "or" in the check of the module lists
ModuleRouter_init_and(base_url, frontends, backends, micro_services) ==
    LET failed == [status |-> "ValueError", base_url |-> None, frontends |-> <<>>,
                   backends |-> <<>>, micro_services |-> <<>>,
                   reg_args |-> [frontends |-> <<>>, backends |-> <<>>,
                                 micro_services |-> <<>>]]
    IN  IF ~truthy(base_url) THEN failed
        ELSE IF ~truthy_list(frontends) /\ ~truthy_list(backends) THEN failed
        ELSE [status |-> "ok",
              base_url |-> base_url,
              frontends |-> dict_of(frontends.items, <<>>),
              backends |-> dict_of(backends.items, <<>>),
              micro_services |-> dict_of(micro_services.items, <<>>),
              reg_args |-> [frontends |-> <<>>, backends |-> <<>>,
                            micro_services |-> <<>>]]

\* ModuleRouter.__init__ passing the backend names to the backends'
\* register_endpoints in place of the frontends'
ModuleRouter_init_backends_named(base_url, frontends, backends, micro_services) ==
    LET failed == [status |-> "ValueError", base_url |-> None, frontends |-> <<>>,
                   backends |-> <<>>, micro_services |-> <<>>,
                   reg_args |-> [frontends |-> <<>>, backends |-> <<>>,
                                 micro_services |-> <<>>]]
    IN  IF ~truthy(base_url) THEN failed
        ELSE IF ~truthy_list(frontends) \/ ~truthy_list(backends) THEN failed
        ELSE LET backend_names == [i \in 1..Len(backends.items) |->
                                      backends.items[i].name]
             IN  [status |-> "ok",
                  base_url |-> base_url,
                  frontends |-> dict_of(frontends.items, <<>>),
                  backends |-> dict_of(backends.items, <<>>),
                  micro_services |-> IF truthy_list(micro_services)
                                     THEN dict_of(micro_services.items, <<>>)
                                     ELSE <<>>,
                  reg_args |-> [frontends |-> <<>>,
                                backends |-> <<backend_names>>,
                                micro_services |-> <<>>]]

\* ModuleRouter.__init__: the constructed router, or the ValueError raised.
\* reg_args records the argument list each category's register_endpoints got.
ModuleRouter_init(base_url, frontends, backends, micro_services) ==
    LET failed == [status |-> "ValueError", base_url |-> None, frontends |-> <<>>,
                   backends |-> <<>>, micro_services |-> <<>>,
                   reg_args |-> [frontends |-> <<>>, backends |-> <<>>,
                                 micro_services |-> <<>>]]
    IN  IF ~truthy(base_url) THEN failed
        ELSE IF ~truthy_list(frontends) \/ ~truthy_list(backends) THEN failed
        ELSE LET backend_names == [i \in 1..Len(backends.items) |->
                                      backends.items[i].name]
             IN  [status |-> "ok",
                  base_url |-> base_url,
                  frontends |-> dict_of(frontends.items, <<>>),
                  backends |-> dict_of(backends.items, <<>>),
                  micro_services |-> IF truthy_list(micro_services)
                                     THEN dict_of(micro_services.items, <<>>)
                                     ELSE <<>>,
                  reg_args |-> [frontends |-> <<backend_names>>,
                                backends |-> <<>>,
                                micro_services |-> <<>>]]

\* "/" in self.base_url.replace("https://", "").replace("http://", "")
has_context_path(base_url) ==
    "/" \in Range(replace(replace(base_url,
                                  <<"h","t","t","p","s",":","/","/">>, <<>>, -1),
                          <<"h","t","t","p",":","/","/">>, <<>>, -1))

\* self.base_url.split("/")[-1]
base_url_context(base_url) ==
    LET parts == split(base_url, "/") IN parts[Len(parts)]

\* the retried path of _find_registered_endpoint_for_module
stripped_path(base_url, path) ==
    replace(replace(path, base_url_context(base_url), <<>>, -1), <<"/">>, <<>>, 1)

\* one regex of a table against the context's path: the raw path, and when
\* that fails and the base URL has a context path, the stripped path
endpoint_matches(base_url, regex, path) ==
    \/ re_search(regex, path)
    \/ /\ has_context_path(base_url)
       /\ re_search(regex, stripped_path(base_url, path))

\* _find_registered_endpoint_for_module trying every pattern on the raw path
\* before any pattern on the stripped path
find_registered_endpoint_for_module_raw_first(base_url, module, path) ==
    LET eps      == module.endpoints
        raw      == {i \in 1..Len(eps) : re_search(eps[i][1], path)}
        retried  == {i \in 1..Len(eps) :
                        /\ has_context_path(base_url)
                        /\ re_search(eps[i][1], stripped_path(base_url, path))}
        hits     == IF raw # {} THEN raw ELSE retried
    IN  IF hits = {} THEN None
        ELSE eps[CHOOSE i \in hits : \A j \in hits : i <= j][2]

\* ModuleRouter._find_registered_endpoint_for_module: the spec of the first
\* endpoint of the module that matches, or None
find_registered_endpoint_for_module(base_url, module, path) ==
    LET eps      == module.endpoints
        has_ctx  == has_context_path(base_url)
        stripped == stripped_path(base_url, path)
        hits     == {i \in 1..Len(eps) :
                        \/ re_search(eps[i][1], path)
                        \/ has_ctx /\ re_search(eps[i][1], stripped)}
    IN  IF hits = {} THEN None
        ELSE eps[CHOOSE i \in hits : \A j \in hits : i <= j][2]

\* _find_registered_endpoint returning the last module that matches
find_registered_endpoint_last(base_url, modules, path) ==
    LET found == [i \in 1..Len(modules) |->
                     find_registered_endpoint_for_module(base_url, modules[i], path)]
        hits  == {i \in 1..Len(modules) : truthy(found[i])}
    IN  IF hits = {}
        THEN [name |-> None, spec |-> None,
              searched |-> [k \in 1..Len(modules) |-> modules[k].instance.name]]
        ELSE LET i == CHOOSE k \in hits : \A j \in hits : k >= j
             IN  [name |-> modules[i].instance.name, spec |-> found[i],
                  searched |-> [k \in 1..i |-> modules[k].instance.name]]

\* ModuleRouter._find_registered_endpoint: the name and the spec of the first
\* module, in dict order, whose search result is truthy (name None stands for
\* UnknownEndpoint), and the names of the modules whose tables were searched:
\* every module up to and including that first one
find_registered_endpoint(base_url, modules, path) ==
    LET found == [i \in 1..Len(modules) |->
                     find_registered_endpoint_for_module(base_url, modules[i], path)]
        hits  == {i \in 1..Len(modules) : truthy(found[i])}
    IN  IF hits = {}
        THEN [name |-> None, spec |-> None,
              searched |-> [k \in 1..Len(modules) |-> modules[k].instance.name]]
        ELSE LET i == CHOOSE k \in hits : \A j \in hits : k <= j
             IN  [name |-> modules[i].instance.name, spec |-> found[i],
                  searched |-> [k \in 1..i |-> modules[k].instance.name]]

\* _find_registered_backend_endpoint searching every backend's table
find_registered_backend_endpoint_any(r, context) ==
    find_registered_endpoint(r.base_url, r.backends, context.path).spec

\* _find_registered_backend_endpoint: the search of the one table of the
\* backend that target_backend names
find_registered_backend_endpoint(r, context) ==
    find_registered_endpoint_for_module(
        r.base_url, lookup(r.backends, context.target_backend), context.path)

\* the check of the path left out
has_no_path_unchecked(context) == FALSE

\* "if context.path is None"
has_no_path(context) == context.path = None

\* the stripped path assigned back to context.path
routed_path_in_place(base_url, path) ==
    IF has_context_path(base_url) THEN stripped_path(base_url, path) ELSE path

\* context.path after a search: the search works on the local context_path,
\* context.path itself is not assigned
routed_path(base_url, path) == path

\* ModuleRouter.endpoint_routing: the outcome, the context it leaves, and
\* the names of the modules whose tables it searched, in order
endpoint_routing(r, context) ==
    IF has_no_path(context)
    THEN [out |-> Raise("SATOSABadContextError", None), ctx |-> context,
          consulted |-> <<>>]
    ELSE
    LET path_split0 == split(context.path, "/")
        has_ctx     == has_context_path(r.base_url)
        c           == base_url_context(r.base_url)
    IN  IF has_ctx /\ c \notin Range(path_split0)
        THEN [out |-> Raise("ValueError", c), ctx |-> context, consulted |-> <<>>]
        ELSE
        LET path_split == IF has_ctx THEN list_remove(path_split0, c) ELSE path_split0
        IN  IF path_split = <<>>
            THEN [out |-> Raise("IndexError", None), ctx |-> context,
                  consulted |-> <<>>]
            ELSE
            LET backend == path_split[1]
                known   == backend \in keys(r.backends)
                ctx1    == IF known THEN [context EXCEPT !.target_backend = backend]
                           ELSE context
                fe      == find_registered_endpoint(r.base_url, r.frontends, ctx1.path)
                ms      == find_registered_endpoint(r.base_url, r.micro_services, ctx1.path)
                be      == IF known THEN find_registered_backend_endpoint(r, ctx1)
                           ELSE None
                bes     == IF known THEN <<ctx1.target_backend>> ELSE <<>>
                ctx2    == [ctx1 EXCEPT !.path = routed_path(r.base_url, @)]
            IN  IF fe.name # None
                THEN [out |-> Return(fe.spec, NoInstance),
                      ctx |-> [ctx2 EXCEPT !.target_frontend = fe.name],
                      consulted |-> fe.searched]
                ELSE IF ms.name # None
                THEN [out |-> Return(ms.spec, NoInstance),
                      ctx |-> [ctx2 EXCEPT !.target_micro_service = ms.name],
                      consulted |-> fe.searched \o ms.searched]
                ELSE IF known /\ truthy(be)
                THEN [out |-> Return(be, NoInstance), ctx |-> ctx2,
                      consulted |-> fe.searched \o ms.searched \o bes]
                ELSE [out |-> Raise("SATOSANoBoundEndpointError", context.path),
                      ctx |-> ctx2,
                      consulted |-> fe.searched \o ms.searched \o bes]

\* backend_routing recording target_backend in place of target_frontend
backend_routing_wrong_target(r, context) ==
    IF context.target_backend \notin keys(r.backends)
    THEN [out |-> Raise("KeyError", context.target_backend), ctx |-> context]
    ELSE [out |-> Return(None, lookup(r.backends, context.target_backend).instance),
          ctx |-> [context EXCEPT !.state =
                      (STATE_KEY :> context.target_backend) @@ context.state]]

\* backend_routing writing the state before it looks the backend up
backend_routing_write_first(r, context) ==
    LET ctx1 == [context EXCEPT !.state =
                    (STATE_KEY :> context.target_frontend) @@ context.state]
    IN  IF context.target_backend \notin keys(r.backends)
        THEN [out |-> Raise("KeyError", context.target_backend), ctx |-> ctx1]
        ELSE [out |-> Return(None, lookup(r.backends, context.target_backend).instance),
              ctx |-> ctx1]

\* ModuleRouter.backend_routing
backend_routing(r, context) ==
    IF context.target_backend \notin keys(r.backends)
    THEN [out |-> Raise("KeyError", context.target_backend), ctx |-> context]
    ELSE [out |-> Return(None, lookup(r.backends, context.target_backend).instance),
          ctx |-> [context EXCEPT !.state =
                      (STATE_KEY :> context.target_frontend) @@ context.state]]

\* frontend_routing falling back to the first frontend when the state names none
frontend_routing_default(r, context) ==
    LET target_frontend ==
            IF STATE_KEY \in DOMAIN context.state
               /\ context.state[STATE_KEY] \in keys(r.frontends)
            THEN context.state[STATE_KEY]
            ELSE r.frontends[1].name
    IN  [out |-> Return(None, lookup(r.frontends, target_frontend).instance),
         ctx |-> [context EXCEPT !.target_frontend = target_frontend]]

\* frontend_routing taking the entry out of the state as it reads it
frontend_routing_pop(r, context) ==
    IF STATE_KEY \notin DOMAIN context.state
    THEN [out |-> Raise("KeyError", None), ctx |-> context]
    ELSE LET target_frontend == context.state[STATE_KEY]
             ctx1 == [context EXCEPT !.target_frontend = target_frontend,
                                     !.state = [k \in DOMAIN @ \ {STATE_KEY} |-> @[k]]]
         IN  IF target_frontend \notin keys(r.frontends)
             THEN [out |-> Raise("KeyError", target_frontend), ctx |-> ctx1]
             ELSE [out |-> Return(None, lookup(r.frontends, target_frontend).instance),
                   ctx |-> ctx1]

\* ModuleRouter.frontend_routing
frontend_routing(r, context) ==
    IF STATE_KEY \notin DOMAIN context.state
    THEN [out |-> Raise("KeyError", None), ctx |-> context]
    ELSE LET target_frontend == context.state[STATE_KEY]
             ctx1 == [context EXCEPT !.target_frontend = target_frontend]
         IN  IF target_frontend \notin keys(r.frontends)
             THEN [out |-> Raise("KeyError", target_frontend), ctx |-> ctx1]
             ELSE [out |-> Return(None, lookup(r.frontends, target_frontend).instance),
                   ctx |-> ctx1]

----------------------------------------------------------------------------
(* The inputs: base URLs, module instances, request paths *)

MaxSegs == 3

HTTPS == <<"h","t","t","p","s",":","/","/">>
HTTP  == <<"h","t","t","p",":","/","/">>

\* no base URL, an empty one, one without a context path, one with the
\* context path "s", one that ends with "/"
BaseUrls ==
    { None,
      <<>>,
      HTTPS \o <<"h">>,
      HTTP \o <<"h","/","s">>,
      HTTPS \o <<"h","/">> }

\* the regular expressions the modules register
RootA == <<"^","a","$">>
AcsA  == <<"^","a","/","a","$">>
AcsSA == <<"^","s","a","/","a","$">>
CtxA  == <<"^","s","/","a","$">>
AnyA  == <<"a">>

F1 == <<"f","1">>
F2 == <<"f","2">>
M1 == <<"m","1">>
BA == <<"a">>
BSA == <<"s","a">>

Digit == <<"1","2","3","4">>

\* a module instance registering the given regexes in order; the spec of
\* its i-th endpoint is the opaque value "<name>#<i>"
Module(name, regexes) ==
    Instance(name, [i \in 1..Len(regexes) |->
                       <<regexes[i], name \o <<"#", Digit[i]>> >>])

FrontendSets ==
    { NoneList,
      List(<<>>),
      List(<<Module(F1, <<RootA, CtxA>>)>>),
      List(<<Module(F1, <<AcsA>>)>>),
      List(<<Module(F1, <<AcsSA>>), Module(F2, <<AnyA>>)>>) }

BackendSets ==
    { NoneList,
      List(<<>>),
      List(<<Module(BA, <<AcsA>>)>>),
      List(<<Module(BSA, <<AcsA>>), Module(BA, <<AcsSA>>)>>) }

MicroServiceSets ==
    { NoneList,
      List(<<>>),
      List(<<Module(M1, <<AcsA>>)>>) }

Segments == { <<>>, <<"s">>, <<"a">>, <<"s","a">> }

\* "/".join(segs)
RECURSIVE join(_)
join(segs) ==
    IF Len(segs) = 1 THEN segs[1]
    ELSE segs[1] \o <<"/">> \o join(Tail(segs))

\* request paths of at most MaxSegs segments
Paths ==
    UNION { {join(segs) : segs \in [1..n -> Segments]} : n \in 1..MaxSegs }

FrontendNames == {F1, F2}
BackendNames == {BA, BSA}

----------------------------------------------------------------------------
(* The state machine *)

Unbuilt ==
    [status |-> "unbuilt", base_url |-> None, frontends |-> <<>>,
     backends |-> <<>>, micro_services |-> <<>>,
     reg_args |-> [frontends |-> <<>>, backends |-> <<>>, micro_services |-> <<>>]]

\* a call and its outcome; repeated: the call is an endpoint_routing that
\* follows an endpoint_routing on the same context
Call(op, out, consulted, repeated) ==
    [op |-> op, out |-> out, consulted |-> consulted, repeated |-> repeated]

NoCall(op) == Call(op, Return(None, NoInstance), <<>>, FALSE)

NoArgs ==
    [base_url |-> None, frontends |-> NoneList, backends |-> NoneList,
     micro_services |-> NoneList]

----------------------------------------------------------------------------
(* SamlBackend: what its operations read and write in the state *)

SamlBackend_STATE_KEY == "Saml2B_76ASF"

\* State.add(key, value) and State.get(key)
state_add(state, key, value) == (key :> value) @@ state

state_get(state, key) == IF key \in DOMAIN state THEN state[key] ELSE None

\* a key the request dictionary does not have
Absent == <<"Absent">>

\* the names of the members of UserIdHashType
Transient == <<"t", "r", "a", "n", "s", "i", "e", "n", "t">>

Persistent == <<"p", "e", "r", "s", "i", "s", "t", "e", "n", "t">>

HashTypeNames == {Transient, Persistent}

\* the strings rndstr() returns
R1 == <<"r", "1">>

R2 == <<"r", "2">>

RelayStates == {R1, R2}

\* the outcome of a SamlBackend operation: what it returned or raised, the
\* state it left, and whether it invoked auth_callback_func
SamlReturn(what, state, called) ==
    [kind |-> "return", exc |-> what, msg |-> "", state |-> state,
     called |-> called]

SamlRaise(exc, msg, state) ==
    [kind |-> "raise", exc |-> exc, msg |-> msg, state |-> state,
     called |-> FALSE]

\* what the SAML client does for one authn_request: whether building the
\* request succeeds, the relay state rndstr() gives, the binding picked
\* and whether the redirect carries a Location header
SpOutcomes ==
    {[built |-> FALSE, relay_state |-> R1, binding |-> "redirect", location |-> TRUE]}
    \cup [built : {TRUE}, relay_state : RelayStates,
          binding : {"redirect", "post"}, location : BOOLEAN]

disco_query(state, user_id_hash_type) ==
    SamlReturn("SeeOther",
               IF user_id_hash_type # None
               THEN state_add(state, SamlBackend_STATE_KEY, user_id_hash_type)
               ELSE state,
               FALSE)

authn_request(state, sp) ==
    IF ~sp.built
    THEN SamlRaise("SATOSAAuthenticationError",
                   "Failed to construct the AuthnRequest", state)
    ELSE LET state1 == state_add(state, SamlBackend_STATE_KEY, sp.relay_state)
         IN  IF sp.binding = "redirect"
             THEN IF sp.location
                  THEN SamlReturn("SeeOther", state1, FALSE)
                  ELSE SamlRaise("SATOSAAuthenticationError", "Parameter error",
                                 state1)
             ELSE SamlReturn("Response", state1, FALSE)

\* has_entity_id: context.internal_data has "saml2.target_entity_id"
start_auth(state, has_entity_id, user_id_hash_type, sp) ==
    IF has_entity_id
    THEN authn_request(state, sp)
    ELSE disco_query(state, user_id_hash_type)

\* has_entity_id: the request has the "entityID" parameter
disco_response(state, has_entity_id, sp) ==
    IF ~has_entity_id
    THEN SamlRaise("SATOSAAuthenticationError", "No IDP chosen", state)
    ELSE LET name == state_get(state, SamlBackend_STATE_KEY)
         IN  IF name = None THEN SamlRaise("TypeError", "", state)
             ELSE IF name \notin HashTypeNames
             THEN SamlRaise("AttributeError", "", state)
             ELSE authn_request(state, sp)

\* the SAMLResponse values of a request: none, the empty string, one that
\* does not parse and one that does
EmptyResponse == <<>>

BadResponse == <<"x">>

GoodResponse == <<"o", "k">>

\* sp.parse_authn_request_response raises unless the response is well formed
parses(saml_response) == saml_response = GoodResponse

authn_response(state, request) ==
    IF request.SAMLResponse = Absent
    THEN SamlRaise("KeyError", "SAMLResponse", state)
    ELSE IF request.SAMLResponse = <<>>
    THEN SamlRaise("SATOSAAuthenticationError", "Missing Response", state)
    ELSE IF ~parses(request.SAMLResponse)
    THEN SamlRaise("SATOSAAuthenticationError", "Failed to parse authn request",
                   state)
    ELSE IF request.RelayState = Absent
    THEN SamlRaise("KeyError", "RelayState", state)
    ELSE IF state_get(state, SamlBackend_STATE_KEY) # request.RelayState
    THEN SamlRaise("SATOSAAuthenticationError", "State did not match relay state",
                   state)
    ELSE SamlReturn("auth_callback_func", state, TRUE)

Requests ==
    [SAMLResponse : {Absent, EmptyResponse, BadResponse, GoodResponse},
     RelayState : {Absent} \cup RelayStates \cup HashTypeNames]

NoRequest == [SAMLResponse |-> Absent, RelayState |-> Absent]

\* the state of one session with the backend, the last operation on it with
\* its request and its outcome, and the relay state generated by the most
\* recent authn_request that returned (None when there is none)
Saml(state, op, request, out, relay) ==
    [state |-> state, op |-> op, request |-> request, out |-> out,
     relay |-> relay]

NoSaml == Saml(EmptyState, "none", NoRequest, SamlReturn("", EmptyState, FALSE), None)

\* no flows share the router
NoFlows == <<>>

\* router: the ModuleRouter (or that its construction raised);
\* args:   the arguments it was constructed with (kept in SpecInit only);
\* ctx:    the Request Context of the request being processed, and between
\*         requests the persisted state;
\* last:   the last call made and its outcome;
\* pending, origin: whether backend_routing has returned in this flow and
\*         frontend_routing has not since, and the target_frontend the
\*         context had when backend_routing last returned;
\* flows:  the flows that share the router at once (SpecFlows only);
\* saml:   a session with the SAML backend (SpecSaml only)
Init ==
    /\ router = Unbuilt
    /\ args = NoArgs
    /\ ctx = Context(None, EmptyState)
    /\ last = NoCall("none")
    /\ pending = FALSE
    /\ origin = None
    /\ flows = NoFlows
    /\ saml = NoSaml

\* the proxy is started: ModuleRouter(base_url, frontends, backends, micro_services)
Construct ==
    /\ router.status = "unbuilt"
    /\ \E b \in BaseUrls, fs \in FrontendSets, bs \in BackendSets,
          ms \in MicroServiceSets :
          router' = ModuleRouter_init(b, fs, bs, ms)
    /\ UNCHANGED <<args, ctx, last, pending, origin, flows, saml>>

\* the same construction, with the arguments of the call kept in args
ConstructRecorded ==
    /\ router.status = "unbuilt"
    /\ \E b \in BaseUrls, fs \in FrontendSets, bs \in BackendSets,
          ms \in MicroServiceSets :
          /\ router' = ModuleRouter_init(b, fs, bs, ms)
          /\ args' = [base_url |-> b, frontends |-> fs, backends |-> bs,
                      micro_services |-> ms]
    /\ UNCHANGED <<ctx, last, pending, origin, flows, saml>>

\* no request is being processed: the router is idle after construction
\* or after a response
Idle == router.status = "ok" /\ last.op \in {"none", "respond"}

\* a request is being processed: its context exists
InRequest == router.status = "ok" /\ last.op \notin {"none", "respond"}

\* the targets a caller sets on a fresh context before it calls the router:
\* none, or a backend with or without a frontend
ChosenTargets ==
    {<<None, None>>} \cup (BackendNames \X (FrontendNames \cup {None}))

\* a request starts a flow: a fresh context with an empty state, the path
\* of the request (possibly none), and the targets its caller has chosen
NewFlow ==
    /\ Idle
    /\ \E p \in Paths \cup {None}, t \in ChosenTargets :
          ctx' = [Context(p, EmptyState) EXCEPT !.target_backend = t[1],
                                                !.target_frontend = t[2]]
    /\ last' = NoCall("new_flow")
    /\ pending' = FALSE
    /\ origin' = None
    /\ UNCHANGED <<router, args, flows, saml>>

\* a later request of the same flow: a fresh context built from a copy of
\* the persisted state
Callback ==
    /\ Idle
    /\ \E p \in Paths \cup {None} : ctx' = Context(p, ctx.state)
    /\ last' = NoCall("callback")
    /\ UNCHANGED <<router, args, pending, origin, flows, saml>>

EndpointRouting ==
    /\ InRequest
    /\ LET res == endpoint_routing(router, ctx)
       IN  /\ ctx' = res.ctx
           /\ last' = Call("endpoint_routing", res.out, res.consulted,
                        last.op = "endpoint_routing")
    /\ UNCHANGED <<router, args, pending, origin, flows, saml>>

BackendRouting ==
    /\ InRequest
    /\ LET res == backend_routing(router, ctx)
       IN  /\ ctx' = res.ctx
           /\ last' = Call("backend_routing", res.out, <<>>, FALSE)
           /\ pending' = IF res.out.kind = "return" THEN TRUE ELSE pending
           /\ origin' = IF res.out.kind = "return" THEN ctx.target_frontend ELSE origin
    /\ UNCHANGED <<router, args, flows, saml>>

FrontendRouting ==
    /\ InRequest
    /\ LET res == frontend_routing(router, ctx)
       IN  /\ ctx' = res.ctx
           /\ last' = Call("frontend_routing", res.out, <<>>, FALSE)
           /\ pending' = IF res.out.kind = "return" THEN FALSE ELSE pending
    /\ UNCHANGED <<router, args, origin, flows, saml>>

\* the request is answered: its context is discarded, its state persisted
Respond ==
    /\ InRequest
    /\ ctx' = Context(None, ctx.state)
    /\ last' = NoCall("respond")
    /\ UNCHANGED <<router, args, pending, origin, flows, saml>>

Next ==
    \/ Construct
    \/ Respond
    \/ NewFlow
    \/ Callback
    \/ EndpointRouting
    \/ BackendRouting
    \/ FrontendRouting

Spec == Init /\ [][Next]_vars

\* construction alone, every combination of arguments
NextInit == ConstructRecorded

SpecInit == Init /\ [][NextInit]_vars

----------------------------------------------------------------------------
(* Properties of inbound routing *)

\* the regexes and the specs of a registry entry
Regexes(module) == {module.endpoints[j][1] : j \in 1..Len(module.endpoints)}

Specs(module) == {module.endpoints[j][2] : j \in 1..Len(module.endpoints)}

Modules(d) == {d[i] : i \in 1..Len(d)}

\* endpoint_routing was the last call, on a context that has a path
Routed == last.op = "endpoint_routing" /\ ctx.path # None

NoBound == "SATOSANoBoundEndpointError"

\* C1: whenever some frontend registers a pattern that matches the request
\* path, endpoint_routing returns a spec of a frontend's Endpoint Table and
\* sets target_frontend to that frontend's name, whatever the micro-services
\* and backends register.
C1_FrontendPriority ==
    (/\ Routed
     /\ \E m \in Modules(router.frontends) :
            \E re \in Regexes(m) : re_search(re, ctx.path))
    => /\ last.out.kind = "return"
       /\ \E m \in Modules(router.frontends) :
              /\ last.out.spec \in Specs(m)
              /\ ctx.target_frontend = m.name

\* C4: with a path present, endpoint_routing either returns a spec or raises
\* SATOSANoBoundEndpointError; it raises nothing else.
C4_ClosedOutcomes ==
    Routed => (last.out.kind = "return" \/ last.out.exc = NoBound)

\* the context path C of the router's base URL
ContextPath == base_url_context(router.base_url)

\* the request path is C/p for a logical path p
Prefixed ==
    /\ has_context_path(router.base_url)
    /\ ContextPath # <<>>
    /\ Len(ctx.path) > Len(ContextPath)
    /\ SubSeq(ctx.path, 1, Len(ContextPath) + 1) = ContextPath \o <<"/">>

Unprefixed == SubSeq(ctx.path, Len(ContextPath) + 2, Len(ctx.path))

\* C5: with a context path C in the base URL, routing the path C/p and
\* routing the path p end the same way: the same spec returned, or
\* SATOSANoBoundEndpointError for both.
C5_ContextPathTolerance ==
    (Routed /\ Prefixed)
    => LET other == endpoint_routing(router, Context(Unprefixed, ctx.state)).out
       IN  /\ other.kind = last.out.kind
           /\ other.exc = last.out.exc
           /\ other.spec = last.out.spec
           /\ other.kind = "return" \/ other.exc = NoBound

\* the first segment of the path once the context prefix is excluded
Candidate ==
    LET segs == split(ctx.path, "/")
    IN  IF has_context_path(router.base_url) /\ Len(segs) > 1 /\ segs[1] = ContextPath
        THEN segs[2]
        ELSE segs[1]

Unmatched(module) ==
    \A re \in Regexes(module) : ~endpoint_matches(router.base_url, re, ctx.path)

\* C7: when the path matches no frontend pattern, no micro-service pattern
\* and, if its first segment names a known backend B, no pattern of B, then
\* endpoint_routing raises SATOSANoBoundEndpointError carrying the path, and
\* target_backend is B when the first segment names a known backend B.
C7_NoBoundEndpoint ==
    (/\ Routed
     /\ \A m \in Modules(router.frontends) : Unmatched(m)
     /\ \A m \in Modules(router.micro_services) : Unmatched(m)
     /\ Candidate \in keys(router.backends)
            => Unmatched(lookup(router.backends, Candidate)))
    => /\ last.out.kind = "raise"
       /\ last.out.exc = NoBound
       /\ last.out.arg = ctx.path
       /\ Candidate \in keys(router.backends) => ctx.target_backend = Candidate

\* C9: a second endpoint_routing on the same context ends as the first did:
\* the same outcome, and the same targets on the context.
C9_Idempotence ==
    [][(last.op = "endpoint_routing" /\ last'.op = "endpoint_routing")
        => /\ last'.out = last.out
           /\ ctx'.target_backend = ctx.target_backend
           /\ ctx'.target_frontend = ctx.target_frontend
           /\ ctx'.target_micro_service = ctx.target_micro_service]_vars

\* endpoint_routing has been called twice in a row and has returned a spec,
\* with a backend and a frontend as targets
C9_Witness ==
    /\ last.op = "endpoint_routing"
    /\ last.repeated
    /\ last.out.kind = "return"
    /\ ctx.target_backend # None
    /\ ctx.target_frontend # None

\* C10: on a context without a path endpoint_routing raises
\* SATOSABadContextError, searches no table, and leaves the context (its
\* targets and its state) as it was.
C10_BadContext ==
    [][(last'.op = "endpoint_routing" /\ ctx.path = None)
        => /\ last'.out = Raise("SATOSABadContextError", None)
           /\ last'.consulted = <<>>
           /\ ctx' = ctx]_vars

\* endpoint_routing has raised SATOSABadContextError on a context that has
\* targets and a recorded state
C10_Witness ==
    /\ last.op = "endpoint_routing"
    /\ last.out.exc = "SATOSABadContextError"
    /\ ctx.path = None
    /\ ctx.target_backend # None
    /\ ctx.target_frontend # None
    /\ STATE_KEY \in DOMAIN ctx.state

----------------------------------------------------------------------------
(* Properties of the dispatch between frontends and backends *)

\* C2: after backend_routing has returned on a context whose target_frontend
\* is a known frontend f, frontend_routing on a context holding that state
\* returns the frontend instance named f and sets target_frontend to f.
C2_RoundTrip ==
    (last.op = "frontend_routing" /\ origin \in keys(router.frontends))
    => /\ last.out.kind = "return"
       /\ last.out.instance = lookup(router.frontends, origin).instance
       /\ last.out.instance.name = origin
       /\ ctx.target_frontend = origin

\* frontend_routing has returned the second frontend on a fresh context (one
\* without a target backend) built from the state backend_routing wrote
C2_Witness ==
    /\ last.op = "frontend_routing"
    /\ last.out.kind = "return"
    /\ origin = F2
    /\ last.out.instance.name = F2
    /\ ctx.target_backend = None

\* the state names no registered frontend
NoContinuation(c) ==
    \/ STATE_KEY \notin DOMAIN c.state
    \/ c.state[STATE_KEY] \notin keys(router.frontends)

\* C3: frontend_routing on a context whose state has no "ROUTER" entry, or
\* one that names no registered frontend, raises KeyError and returns no
\* frontend instance.
C3_ContinuationLookupFailure ==
    [][(last'.op = "frontend_routing" /\ NoContinuation(ctx))
        => /\ last'.out.kind = "raise"
           /\ last'.out.exc = "KeyError"
           /\ last'.out.instance = NoInstance]_vars

\* frontend_routing has raised on the entry that backend_routing wrote for a
\* context without a target frontend
C3_Witness ==
    /\ last.op = "frontend_routing"
    /\ last.out.exc = "KeyError"
    /\ STATE_KEY \in DOMAIN ctx.state
    /\ ctx.state[STATE_KEY] = None
    /\ origin = None
    /\ pending

RouterCalls == {"endpoint_routing", "frontend_routing", "backend_routing"}

EntryKept ==
    /\ STATE_KEY \in DOMAIN ctx'.state
    /\ ctx'.state[STATE_KEY] = ctx.state[STATE_KEY]

\* C6 as first stated: from backend_routing's write until frontend_routing's read,
\* no endpoint_routing, frontend_routing or backend_routing call changes
\* state["ROUTER"].
C6_Original ==
    [][(pending /\ last'.op \in RouterCalls) => EntryKept]_vars

\* C6: from backend_routing's write until frontend_routing's read, no
\* endpoint_routing and no frontend_routing call, and no hand-over of the
\* state to a later request, changes state["ROUTER"]; a backend_routing call
\* that returns sets it to the target_frontend of its context, and one that
\* raises leaves the state as it was.
C6_ContinuationStable ==
    [][/\ (pending /\ last'.op \notin {"backend_routing", "new_flow"}) => EntryKept
       /\ (last'.op = "backend_routing" /\ last'.out.kind = "return")
              => /\ STATE_KEY \in DOMAIN ctx'.state
                 /\ ctx'.state[STATE_KEY] = ctx.target_frontend
       /\ (last'.op = "backend_routing" /\ last'.out.kind = "raise")
              => ctx'.state = ctx.state]_vars

\* endpoint_routing has set another target frontend than the one recorded,
\* and the recorded one is still in the state
C6_Witness ==
    /\ pending
    /\ last.op = "endpoint_routing"
    /\ STATE_KEY \in DOMAIN ctx.state
    /\ ctx.state[STATE_KEY] = F1
    /\ ctx.target_frontend = F2

----------------------------------------------------------------------------
(* Properties of construction, under SpecInit *)

Empty(l) == l.is_none \/ Len(l.items) = 0

Names(l) == {l.items[i].name : i \in 1..Len(l.items)}

\* C8: construction raises ValueError exactly when the base URL is absent or
\* empty, or there is no frontend, or there is no backend; without
\* micro-services it succeeds with an empty micro-service mapping; and on
\* success the keys of each mapping are the names of the instances given.
C8_Construction ==
    router.status # "unbuilt"
    => /\ router.status \in {"ok", "ValueError"}
       /\ router.status = "ValueError"
              <=> \/ args.base_url \in {None, <<>>}
                  \/ Empty(args.frontends)
                  \/ Empty(args.backends)
       /\ router.status = "ok"
              => /\ keys(router.frontends) = Names(args.frontends)
                 /\ keys(router.backends) = Names(args.backends)
                 /\ keys(router.micro_services) = Names(args.micro_services)
                 /\ Empty(args.micro_services) => router.micro_services = <<>>

\* a router built without a micro-service list
C8_Witness ==
    /\ router.status = "ok"
    /\ args.micro_services = NoneList
    /\ router.micro_services = <<>>
    /\ Len(router.frontends) = 2

----------------------------------------------------------------------------
(* Several flows at once on one router, each with a context of its own *)

\* the number of flows that share the router
NumFlows == 2

Flows == 1..NumFlows

\* the routers the flows share: no context path, every catalogue registry
FlowRouters ==
    {r \in {ModuleRouter_init(HTTPS \o <<"h">>, fs, bs, NoneList) :
                fs \in FrontendSets, bs \in BackendSets} : r.status = "ok"}

\* the paths of the flows' requests
FlowPaths == {<<"a", "/", "a">>, <<"s", "a", "/", "a">>}

\* a flow: its current context, its last call with the outcome, and the
\* target_frontend its context had when its backend_routing last returned
Flow(context, op, out, recorded) ==
    [ctx |-> context, op |-> op, out |-> out, recorded |-> recorded]

\* the router with its attributes rebound by a routing call
self_after_routing_rebound(r, op) ==
    IF op = "backend_routing" THEN [r EXCEPT !.frontends = <<>>] ELSE r

\* the router after a routing call: no routing method assigns to self or
\* to the dictionaries it holds
self_after_routing(r, op) == r

InitFlows ==
    /\ router \in FlowRouters
    /\ args = NoArgs
    /\ ctx = Context(None, EmptyState)
    /\ last = NoCall("none")
    /\ pending = FALSE
    /\ origin = None
    /\ flows = [f \in Flows |-> Flow(Context(None, EmptyState), "none",
                                     Return(None, NoInstance), None)]
    /\ saml = NoSaml

\* a request of flow f arrives: a fresh context with a copy of the state
\* the flow has persisted (empty for its first request)
FlowRequest(f) ==
    /\ \E p \in FlowPaths :
          flows' = [flows EXCEPT ![f] =
                        Flow(Context(p, flows[f].ctx.state), "request",
                             Return(None, NoInstance), flows[f].recorded)]
    /\ UNCHANGED <<router, args, ctx, last, pending, origin, saml>>

FlowEndpointRouting(f) ==
    /\ flows[f].op # "none"
    /\ LET res == endpoint_routing(router, flows[f].ctx)
       IN  flows' = [flows EXCEPT ![f] =
                         Flow(res.ctx, "endpoint_routing", res.out, flows[f].recorded)]
    /\ router' = self_after_routing(router, "endpoint_routing")
    /\ UNCHANGED <<args, ctx, last, pending, origin, saml>>

FlowBackendRouting(f) ==
    /\ flows[f].op # "none"
    /\ LET res == backend_routing(router, flows[f].ctx)
       IN  flows' = [flows EXCEPT ![f] =
                         Flow(res.ctx, "backend_routing", res.out,
                              IF res.out.kind = "return"
                              THEN flows[f].ctx.target_frontend
                              ELSE flows[f].recorded)]
    /\ router' = self_after_routing(router, "backend_routing")
    /\ UNCHANGED <<args, ctx, last, pending, origin, saml>>

FlowFrontendRouting(f) ==
    /\ flows[f].op # "none"
    /\ LET res == frontend_routing(router, flows[f].ctx)
       IN  flows' = [flows EXCEPT ![f] =
                         Flow(res.ctx, "frontend_routing", res.out, flows[f].recorded)]
    /\ router' = self_after_routing(router, "frontend_routing")
    /\ UNCHANGED <<args, ctx, last, pending, origin, saml>>

NextFlows ==
    \E f \in Flows :
        \/ FlowRequest(f)
        \/ FlowEndpointRouting(f)
        \/ FlowBackendRouting(f)
        \/ FlowFrontendRouting(f)

SpecFlows == InitFlows /\ [][NextFlows]_vars

\* flow f's last call was frontend_routing and it returned a frontend
Resolved(fl) == fl.op = "frontend_routing" /\ fl.out.kind = "return"

\* C11: per-request isolation.  However the routing calls of the flows
\* that share one router interleave, no call changes the router (its
\* registry and the endpoint tables in it), a call of one flow leaves the
\* context and state of every other flow as they were, and a flow's
\* frontend_routing resolves to the frontend that flow's own
\* backend_routing recorded.
C11_Isolation ==
    [][ /\ router' = router
        /\ \A f \in Flows :
              /\ Resolved(flows'[f]) =>
                    /\ flows'[f].recorded # None
                    /\ flows'[f].out.instance.name = flows'[f].recorded
              /\ flows'[f] # flows[f] =>
                    \A g \in Flows \ {f} : flows'[g] = flows[g] ]_vars

\* both flows have resolved, each to its own frontend, and the two differ
C11_Witness ==
    /\ \A f \in Flows : Resolved(flows[f])
    /\ flows[1].out.instance.name = F1
    /\ flows[2].out.instance.name = F2
    /\ flows[1].recorded = F1
    /\ flows[2].recorded = F2

----------------------------------------------------------------------------
(* The arguments of register_endpoints, under SpecInit *)

\* the names of the backends given to the constructor, in the order given
GivenBackendNames ==
    [i \in 1..Len(args.backends.items) |-> args.backends.items[i].name]

\* C12 as first stated: construction calls each backend's endpoint
\* registration with the list of all backend names as its argument.
C12_Original ==
    router.status = "ok" => router.reg_args.backends = <<GivenBackendNames>>

\* C12: construction calls each frontend's endpoint registration with the
\* list of all backend names, in the order the backends were given, as its
\* one argument, and calls each backend's and each micro-service's
\* endpoint registration without arguments.
C12_RegistrationArguments ==
    router.status = "ok"
    => /\ router.reg_args.frontends = <<GivenBackendNames>>
       /\ router.reg_args.backends = <<>>
       /\ router.reg_args.micro_services = <<>>

\* a router built from two backends and a micro-service: the frontends'
\* registration has received both backend names
C12_Witness ==
    /\ router.status = "ok"
    /\ Len(args.backends.items) = 2
    /\ truthy_list(args.micro_services)
    /\ router.reg_args.frontends = <<<<BSA, BA>>>>
    /\ router.reg_args.backends = <<>>

----------------------------------------------------------------------------
(* Properties of the search order of endpoint_routing *)

\* the micro-services with a pattern that matches the path
MatchingMicroServices ==
    {m \in Modules(router.micro_services) : ~Unmatched(m)}

\* C13: when no frontend pattern matches the path and some micro-service
\* has a pattern that matches it, endpoint_routing returns a spec of such a
\* micro-service and sets target_micro_service to its name; it leaves
\* target_frontend as it was and does not search any backend's table, even
\* if the backend named by the first segment has a matching pattern.
C13_MicroServiceBeforeBackend ==
    [][(/\ last'.op = "endpoint_routing"
        /\ ctx.path # None
        /\ \A m \in Modules(router.frontends) : Unmatched(m)
        /\ MatchingMicroServices # {})
        => /\ last'.out.kind = "return"
           /\ \E m \in MatchingMicroServices :
                  /\ last'.out.spec \in Specs(m)
                  /\ ctx'.target_micro_service = m.name
           /\ ctx'.target_frontend = ctx.target_frontend
           /\ \A b \in keys(router.backends) : b \notin Range(last'.consulted)]_vars

\* the backends, other than the one the first segment names, that have a
\* pattern matching the path
OtherMatchingBackends ==
    {m \in Modules(router.backends) : m.name # Candidate /\ ~Unmatched(m)}

\* C14: endpoint_routing returns a backend's spec only from the table of
\* the backend whose name is the first segment of the path (the context
\* prefix excluded), and searches no other backend's table: a first segment
\* that names no known backend gives no backend spec, and a pattern that
\* only another backend registers is never used.
C14_NoCrossBackendMatching ==
    Routed
    => /\ \A m \in Modules(router.backends) :
              (last.out.kind = "return" /\ last.out.spec \in Specs(m))
              => /\ m.name = Candidate
                 /\ ctx.target_backend = m.name
       /\ \A b \in keys(router.backends) :
              b \in Range(last.consulted) => b = Candidate

\* the first segment names a known backend that has no matching pattern,
\* another backend has one, and endpoint_routing has found nothing
C14_Witness ==
    /\ Routed
    /\ last.out.exc = NoBound
    /\ Candidate \in keys(router.backends)
    /\ Candidate \in Range(last.consulted)
    /\ OtherMatchingBackends # {}

\* the exceptions of backend selection
SelectionFailures == {"ValueError", "IndexError"}

\* C15: endpoint_routing takes the first segment of the path, the context
\* prefix of the base URL excluded, as the candidate backend name.  If the
\* candidate is a known backend, target_backend becomes the candidate (for
\* the path C/B/x it becomes B, not C); if not, target_backend stays as it
\* was and backend selection does not fail.
C15_BackendSelection ==
    [][(last'.op = "endpoint_routing" /\ ctx.path # None)
        => IF Candidate \in keys(router.backends)
           THEN ctx'.target_backend = Candidate
           ELSE /\ ctx'.target_backend = ctx.target_backend
                /\ last'.out.exc \notin SelectionFailures]_vars

----------------------------------------------------------------------------
(* Properties of the search within a category and within a table *)

\* every module of the registry
AllModules ==
    Modules(router.frontends) \cup Modules(router.micro_services)
        \cup Modules(router.backends)

\* the j-th pattern of the module matches the path as it came
MatchesRaw(module, j) == re_search(module.endpoints[j][1], ctx.path)

\* the j-th pattern of the module matches the path with the context prefix
\* stripped (tried only when the base URL has a context path)
MatchesStripped(module, j) ==
    /\ has_context_path(router.base_url)
    /\ re_search(module.endpoints[j][1], stripped_path(router.base_url, ctx.path))

\* endpoint_routing has returned a spec of the module's table
ReturnedFrom(module) ==
    Routed /\ last.out.kind = "return" /\ last.out.spec \in Specs(module)

\* C16 as first stated: when some pattern of the table matches the raw
\* path, the spec returned from the table is that of the first pattern
\* matching the raw path.
C16_Original ==
    \A m \in AllModules :
        (ReturnedFrom(m) /\ \E j \in 1..Len(m.endpoints) : MatchesRaw(m, j))
        => \E j \in 1..Len(m.endpoints) :
              /\ MatchesRaw(m, j)
              /\ \A k \in 1..(j-1) : ~MatchesRaw(m, k)
              /\ last.out.spec = m.endpoints[j][2]

\* C16: within one table the patterns are tried in registration order, each
\* on the raw path and then, when the base URL has a context path, on the
\* stripped path, before the next pattern is tried; the spec returned is
\* that of the first pattern matching either way, so an earlier pattern that
\* matches only the stripped path wins over a later one that matches the
\* raw path.
C16_RawThenStrippedPerPattern ==
    \A m \in AllModules :
        ReturnedFrom(m)
        => \E j \in 1..Len(m.endpoints) :
              /\ MatchesRaw(m, j) \/ MatchesStripped(m, j)
              /\ \A k \in 1..(j-1) : ~MatchesRaw(m, k) /\ ~MatchesStripped(m, k)
              /\ last.out.spec = m.endpoints[j][2]

\* the spec of a first pattern that matches only the stripped path has been
\* returned although the second pattern matches the raw path
C16_Witness ==
    \E m \in AllModules :
        /\ ReturnedFrom(m)
        /\ Len(m.endpoints) = 2
        /\ last.out.spec = m.endpoints[1][2]
        /\ ~MatchesRaw(m, 1)
        /\ MatchesStripped(m, 1)
        /\ MatchesRaw(m, 2)

\* the searched categories
Categories == {router.frontends, router.micro_services}

\* C17: within a category the tables are searched in registry order and the
\* patterns of a table in registration order; the spec returned is that of
\* the first module with a matching pattern and of its first matching
\* pattern, whatever later patterns and later modules match.
C17_FirstMatchWins ==
    \A d \in Categories : \A i \in 1..Len(d) :
        ReturnedFrom(d[i])
        => /\ \A k \in 1..(i-1) : Unmatched(d[k])
           /\ \E j \in 1..Len(d[i].endpoints) :
                 /\ endpoint_matches(router.base_url, d[i].endpoints[j][1], ctx.path)
                 /\ \A k \in 1..(j-1) :
                       ~endpoint_matches(router.base_url, d[i].endpoints[k][1],
                                         ctx.path)
                 /\ last.out.spec = d[i].endpoints[j][2]

\* the first frontend's spec has been returned for a path that a pattern of
\* the second frontend matches too
C17_Witness ==
    /\ Len(router.frontends) = 2
    /\ ReturnedFrom(router.frontends[1])
    /\ ctx.target_frontend = router.frontends[1].name
    /\ ~Unmatched(router.frontends[2])

----------------------------------------------------------------------------
(* Properties of the normalization of the path *)

\* the path with the context path C removed from its front only
Normalized ==
    IF Prefixed THEN Unprefixed
    ELSE IF ctx.path = ContextPath THEN <<>>
    ELSE ctx.path

\* the modules whose tables the last endpoint_routing searched
Consulted == {m \in AllModules : m.name \in Range(last.consulted)}

\* the last endpoint_routing has retried a pattern on the stripped path
Retried ==
    /\ Routed
    /\ has_context_path(router.base_url)
    /\ ContextPath # <<>>
    /\ \E m \in Consulted : ~MatchesRaw(m, 1)

\* C18: with a context path C in the base URL, the path that the retry is
\* matched against is the request path with C removed from its front only:
\* for C/r it is exactly r, also when r contains C, and a path that does not
\* start with C is not altered; so a spec that endpoint_routing returns
\* belongs to a pattern that matches the raw path or that normalized path.
C18_PrefixOnlyNormalization ==
    Retried
    => /\ stripped_path(router.base_url, ctx.path) = Normalized
       /\ \A m \in AllModules :
              ReturnedFrom(m)
              => \E j \in 1..Len(m.endpoints) :
                    /\ last.out.spec = m.endpoints[j][2]
                    /\ \/ MatchesRaw(m, j)
                       \/ re_search(m.endpoints[j][1], Normalized)

----------------------------------------------------------------------------
(* Properties of a dispatch that fails *)

\* the call made in this step is the given one and it raises
Raises(op) == last'.op = op /\ last'.out.kind = "raise"

\* C19 as first stated: a backend_routing or a frontend_routing that raises
\* leaves the context as it was before the call.
C19_Original ==
    [][(Raises("backend_routing") \/ Raises("frontend_routing"))
        => ctx' = ctx]_vars

\* C19: a backend_routing that raises leaves the context as it was, and so
\* does a frontend_routing that raises because the state has no "ROUTER"
\* entry; a frontend_routing that raises because the entry names no known
\* frontend has set target_frontend to the entry and changed nothing else.
C19_FailedDispatch ==
    [][ /\ Raises("backend_routing") => ctx' = ctx
        /\ Raises("frontend_routing")
              => IF STATE_KEY \in DOMAIN ctx.state
                 THEN ctx' = [ctx EXCEPT !.target_frontend = ctx.state[STATE_KEY]]
                 ELSE ctx' = ctx ]_vars

\* frontend_routing has raised on a fresh context whose state names a
\* frontend that the router does not have, and target_frontend is that name
C19_Witness ==
    /\ last.op = "frontend_routing"
    /\ last.out.kind = "raise"
    /\ STATE_KEY \in DOMAIN ctx.state
    /\ ctx.state[STATE_KEY] = F2
    /\ F2 \notin keys(router.frontends)
    /\ ctx.target_frontend = F2
    /\ ctx.target_backend = None

----------------------------------------------------------------------------
(* One session with the SAML backend *)

InitSaml ==
    /\ router = Unbuilt
    /\ args = NoArgs
    /\ ctx = Context(None, EmptyState)
    /\ last = NoCall("none")
    /\ pending = FALSE
    /\ origin = None
    /\ flows = NoFlows
    /\ saml = NoSaml

\* start_auth: an authn_request when the target entity is known, a
\* disco_query when it is not
StartAuth ==
    /\ \E has_entity_id \in BOOLEAN, hash \in HashTypeNames \cup {None},
          sp \in SpOutcomes :
          LET res == start_auth(saml.state, has_entity_id, hash, sp)
          IN  saml' = Saml(res.state,
                           IF has_entity_id THEN "authn_request" ELSE "disco_query",
                           NoRequest, res,
                           IF has_entity_id /\ res.kind = "return"
                           THEN sp.relay_state ELSE saml.relay)
    /\ UNCHANGED <<router, args, ctx, last, pending, origin, flows>>

\* the discovery service answers
DiscoResponse ==
    /\ \E has_entity_id \in BOOLEAN, sp \in SpOutcomes :
          LET res == disco_response(saml.state, has_entity_id, sp)
          IN  saml' = Saml(res.state, "disco_response", NoRequest, res,
                           IF res.kind = "return" THEN sp.relay_state
                           ELSE saml.relay)
    /\ UNCHANGED <<router, args, ctx, last, pending, origin, flows>>

\* a request arrives at the assertion consumer service
AuthnResponse ==
    /\ \E request \in Requests :
          LET res == authn_response(saml.state, request)
          IN  saml' = Saml(res.state, "authn_response", request, res, saml.relay)
    /\ UNCHANGED <<router, args, ctx, last, pending, origin, flows>>

NextSaml ==
    \/ StartAuth
    \/ DiscoResponse
    \/ AuthnResponse

SpecSaml == InitSaml /\ [][NextSaml]_vars

\* C20: authn_response invokes auth_callback_func only if the request has a
\* non-empty SAMLResponse that parses and a RelayState equal to the value
\* stored under the backend's state key, and that value is the relay state
\* generated by the most recent authn_request that returned on this state;
\* in every other case it raises SATOSAAuthenticationError.
C20_RelayStateBinding ==
    saml.op = "authn_response"
    => IF saml.out.called
       THEN /\ saml.request.SAMLResponse \notin {Absent, EmptyResponse}
            /\ parses(saml.request.SAMLResponse)
            /\ saml.request.RelayState
                   = state_get(saml.state, SamlBackend_STATE_KEY)
            /\ saml.relay # None
            /\ state_get(saml.state, SamlBackend_STATE_KEY) = saml.relay
       ELSE /\ saml.out.kind = "raise"
            /\ saml.out.exc = "SATOSAAuthenticationError"

====
